---- MODULE Spec2Model ----
(***************************************************************************)
(* Model of the jazayeri-lab-to-nwb conversion scripts: the temporal       *)
(* alignment of the converters (piccato, watters), the spike trimming      *)
(* helper, the single-file lookup, and the session_to_nwb entry points of  *)
(* the lab-member variants, the trials tables and the ramadan helpers.      *)
(*                                                                         *)
(* Time is in integer ticks; a timestamp array is a sequence of integers.  *)
(* A spike vector is a sequence of records [segment_index, sample_index]   *)
(* sorted by segment and then by sample, as to_spike_vector() returns it.  *)
(***************************************************************************)
EXTENDS Integers, Sequences, FiniteSets, TLC

VARIABLES
    \* ---- converter state (nwb_converter.py, wattersnwbconverter.py)
    variant,                 \* which converter class this is
    data_interface_objects,  \* names of the interfaces the converter holds
    sync_dir,                \* TRUE: a sync directory is set, FALSE: None
    sync,                    \* contents of the files under sync_dir
    original_timestamps,     \* name -> timestamps as read from the source
    timestamps,              \* name -> current timestamps of the interface
    num_samples,             \* recording name -> samples per segment
    sorting_extractor,       \* sorting name -> spike vector of its extractor
    registered,              \* sorting name -> recording registered to it
    max_excess_samples,      \* argument of _trim_excess_spikes
    pc,                      \* position inside the running operation
    todo,                    \* recordings the alignment loop has yet to visit
    invocations,             \* calls of temporally_align_data_interfaces
    entry_timestamps,        \* timestamps when the current call started
    entry_sorting,           \* sorting extractors when the call started
    aligned_timestamps,      \* timestamps when the zeroing step started
    steps,                   \* alignment steps taken in the current call
    dataframe,               \* table interface name -> column -> values
    \* ---- _get_single_file (main_convert_session.py)
    directory,               \* names of the entries of the directory
    suffix,                  \* the suffix argument
    result,                  \* the path returned, NoPath before and on error
    \* ---- session_to_nwb and its command line (main_convert_session.py)
    argv,                    \* sys.argv[1:], argv[k] being sys.argv[k]
    subject,                 \* session_to_nwb's subject
    session,                 \* session_to_nwb's session
    conversion_type,         \* session_to_nwb's conversion_type (piccato)
    stub_test,               \* session_to_nwb's stub_test
    env,                     \* what the run finds on disk and in metadata
    session_paths,           \* the SessionPaths get_session_paths returned
    session_id,              \* the session id the file names are built from
    runs,                    \* nwbfile_path of every run_conversion, in order
    nwb_files,               \* NWB files in the output directory
    error,                   \* the exception that ended the run, if any
    \* ---- the run_conversion calls of one session
    written                  \* what each run_conversion wrote, in order

convVars == <<variant, data_interface_objects, sync_dir, sync,
              original_timestamps, timestamps, num_samples,
              sorting_extractor, registered, max_excess_samples, pc, todo,
              invocations, entry_timestamps, entry_sorting,
              aligned_timestamps, steps, dataframe>>

\* the converter's state but for variant and pc, which every operation uses
convOnly == <<data_interface_objects, sync_dir, sync, original_timestamps,
              timestamps, num_samples, sorting_extractor, registered,
              max_excess_samples, todo, invocations, entry_timestamps,
              entry_sorting, aligned_timestamps, steps, dataframe>>

fileVars == <<directory, suffix, result>>

sessVars == <<argv, subject, session, conversion_type, stub_test, env,
              session_paths, session_id, runs, nwb_files, error>>

runVars == <<written>>

vars == <<convVars, fileVars, sessVars, runVars>>

----------------------------------------------------------------------------
(* Bounds of the model *)

\* number of samples (and of timestamps) of every recording segment
NumSamples == 2
\* largest number of recording segments handed to _trim_excess_spikes
MaxSegments == 2
\* calls of temporally_align_data_interfaces on one converter
MaxInvocations == 2

(* Program constants *)

\* default of max_excess_samples
MaxExcessSamples == 300

----------------------------------------------------------------------------
(* Interface names.  A name is the sequence of the pieces the code looks   *)
(* for in it, so that "Recording" in name, name.split("Recording")[1] and  *)
(* f"Sorting{probe_name}" are computed and not assumed.                     *)

RecordingVP0 == <<"Recording", "VP", "0">>
SortingVP0   == <<"Sorting", "VP", "0">>
RecordingVP1 == <<"Recording", "VP", "1">>
SortingVP1   == <<"Sorting", "VP", "1">>
RecordingNP  == <<"Recording", "NP">>
LF           == <<"LF">>
SortingNP    == <<"Sorting", "NP">>
EyePosition  == <<"EyePosition">>
Trials       == <<"Trials">>
Display      == <<"Display">>

NoRecording == <<>>

\* piece in name
Contains(name, piece) == \E i \in 1..Len(name) : name[i] = piece

\* name.split("Recording")[1]
ProbeName(name) ==
    LET i == CHOOSE j \in 1..Len(name) : name[j] = "Recording"
    IN  SubSeq(name, i + 1, Len(name))

\* f"Sorting{probe_name}"
SortingName(probe_name) == <<"Sorting">> \o probe_name

\* isinstance(data_interface, BaseSortingExtractorInterface)
IsSorting(name) == name \in {SortingVP0, SortingVP1, SortingNP}

----------------------------------------------------------------------------
(* Helpers on sequences *)

Min(S) == CHOOSE x \in S : \A y \in S : x <= y

Range(s) == {s[i] : i \in 1..Len(s)}

\* spike records ordered by segment, then sample
SpikeLess(a, b) ==
    \/ a.segment_index < b.segment_index
    \/ /\ a.segment_index = b.segment_index
       /\ a.sample_index < b.sample_index

RECURSIVE SortedSpikes(_)
SortedSpikes(S) ==
    IF S = {} THEN <<>>
    ELSE LET m == CHOOSE x \in S : \A y \in S \ {x} : SpikeLess(x, y)
         IN  <<m>> \o SortedSpikes(S \ {m})

\* np.searchsorted(column, v), side "left": how many entries are below v
SearchSorted(column, v) == Cardinality({i \in 1..Len(column) : column[i] < v})

SegmentColumn(spike_vector) ==
    [i \in 1..Len(spike_vector) |-> spike_vector[i].segment_index]

\* spike_vector[start:end] for the half-open numpy slice start..end-1 (0-based)
Slice(spike_vector, start, end) ==
    IF end <= start THEN <<>> ELSE SubSeq(spike_vector, start + 1, end)

\* the spikes of one segment, found as the code finds them
SpikeVectorSeg(spike_vector, segment_index) ==
    Slice(spike_vector,
          SearchSorted(SegmentColumn(spike_vector), segment_index),
          SearchSorted(SegmentColumn(spike_vector), segment_index + 1))

----------------------------------------------------------------------------
(* Spike trimming *)

\* Excess with the "+ 1" forgotten
Excess_NoPlusOne(spike_vector_seg, n_samples) ==
    spike_vector_seg[Len(spike_vector_seg)].sample_index - n_samples

\* excess = last_spike_vector_sample - last_recording_sample + 1
Excess(spike_vector_seg, n_samples) ==
    spike_vector_seg[Len(spike_vector_seg)].sample_index - n_samples + 1

\* spikeinterface curation.remove_excess_spikes: keeps, in every segment, the
\* spikes whose sample index lies inside the recording segment
remove_excess_spikes(n_samples, spike_vector) ==
    SelectSeq(spike_vector,
              LAMBDA s : /\ s.sample_index >= 0
                         /\ s.sample_index < n_samples[s.segment_index + 1])

\* has_exceeding_spikes never reporting a spike past the end
has_exceeding_spikes_Never(n_samples, spike_vector) ==
    Len(spike_vector) < 0

\* spikeinterface has_exceeding_spikes: some segment's last spike lies past
\* the last sample of the recording segment
has_exceeding_spikes(n_samples, spike_vector) ==
    \E seg \in 0..(Len(n_samples) - 1) :
        LET sv == SpikeVectorSeg(spike_vector, seg)
        IN  /\ Len(sv) > 0
            /\ sv[Len(sv)].sample_index > n_samples[seg + 1] - 1

\* The segment loop of _trim_excess_spikes from segment seg on: "raise" when
\* a segment exceeds the slack, else the final has_exceeding_spikes flag.
RECURSIVE TrimLoop(_, _, _, _, _)
TrimLoop(n_samples, spike_vector, max_excess, seg, flag) ==
    IF seg >= Len(n_samples) THEN (IF flag THEN "exceeding" ELSE "clean")
    ELSE LET sv == SpikeVectorSeg(spike_vector, seg)
         IN  IF Len(sv) > 0
             THEN IF Excess(sv, n_samples[seg + 1]) > max_excess
                  THEN "raise"
                  ELSE IF Excess(sv, n_samples[seg + 1]) > 0
                       THEN TrimLoop(n_samples, spike_vector, max_excess,
                                     seg + 1, TRUE)
                       ELSE TrimLoop(n_samples, spike_vector, max_excess,
                                     seg + 1, flag)
             ELSE TrimLoop(n_samples, spike_vector, max_excess, seg + 1, flag)

\* _trim_excess_spikes with the trimmed sorting never assigned back
trim_excess_spikes_NoAssign(n_samples, spike_vector, max_excess) ==
    [raised  |-> (TrimLoop(n_samples, spike_vector, max_excess, 0, FALSE)
                     = "raise"),
     sorting |-> spike_vector]

\* _trim_excess_spikes removing the excess spikes before it raises
trim_excess_spikes_TrimThenRaise(n_samples, spike_vector, max_excess) ==
    LET r == TrimLoop(n_samples, spike_vector, max_excess, 0, FALSE)
    IN  [raised  |-> (r = "raise"),
         sorting |-> IF r \in {"exceeding", "raise"}
                     THEN remove_excess_spikes(n_samples, spike_vector)
                     ELSE spike_vector]

\* _trim_excess_spikes: [raised, sorting] where sorting is the extractor the
\* sorting interface holds afterwards
trim_excess_spikes(n_samples, spike_vector, max_excess) ==
    LET r == TrimLoop(n_samples, spike_vector, max_excess, 0, FALSE)
    IN  [raised  |-> (r = "raise"),
         sorting |-> IF r = "exceeding"
                     THEN remove_excess_spikes(n_samples, spike_vector)
                     ELSE spike_vector]

----------------------------------------------------------------------------
(* Inputs of the trimming specification *)

\* sample indices around the end of a recording of n samples
SpikeCandidates(n, max_excess) ==
    {0, n - 1, n, n + max_excess - 1, n + max_excess}

SpikeVectors(n_segments, max_excess) ==
    {SortedSpikes(S) :
        S \in SUBSET {[segment_index |-> seg, sample_index |-> smp] :
                        seg \in 0..(n_segments - 1),
                        smp \in SpikeCandidates(NumSamples, max_excess)}}

NoFun == <<>>

NoPath == <<>>
NoString == <<>>

\* the lookup and the session run are not part of this specification
\* no run_conversion has written anything
IdleRuns == written = <<>>

IdleFiles ==
    /\ directory = {}
    /\ suffix = NoString
    /\ result = NoPath

IdleSession ==
    /\ argv = <<>>
    /\ subject = NoString
    /\ session = NoString
    /\ conversion_type = NoString
    /\ stub_test = FALSE
    /\ env = NoFun
    /\ session_paths = NoFun
    /\ session_id = NoString
    /\ runs = <<>>
    /\ nwb_files = {}
    /\ error = "none"

\* no converter is part of this specification
IdleConverter ==
    /\ data_interface_objects = <<>>
    /\ sync_dir = FALSE
    /\ sync = NoFun
    /\ original_timestamps = NoFun
    /\ timestamps = NoFun
    /\ num_samples = NoFun
    /\ sorting_extractor = NoFun
    /\ registered = NoFun
    /\ max_excess_samples = MaxExcessSamples
    /\ todo = <<>>
    /\ invocations = 0
    /\ entry_timestamps = NoFun
    /\ entry_sorting = NoFun
    /\ aligned_timestamps = NoFun
    /\ steps = <<>>
    /\ dataframe = NoFun

InitTrim ==
    /\ IdleRuns
    /\ IdleFiles
    /\ IdleSession
    /\ variant = "trim"
    /\ data_interface_objects = <<RecordingVP0, SortingVP0>>
    /\ sync_dir = FALSE
    /\ sync = NoFun
    /\ original_timestamps = NoFun
    /\ timestamps = NoFun
    /\ max_excess_samples \in {MaxExcessSamples, 1}
    /\ \E n_segments \in 1..MaxSegments :
          /\ num_samples = [r \in {RecordingVP0} |->
                              [s \in 1..n_segments |-> NumSamples]]
          /\ \E sv \in SpikeVectors(n_segments, max_excess_samples) :
                sorting_extractor = [s \in {SortingVP0} |-> sv]
    /\ registered = [s \in {SortingVP0} |-> NoRecording]
    /\ pc = "call"
    /\ todo = <<>>
    /\ invocations = 0
    /\ entry_timestamps = NoFun
    /\ entry_sorting = sorting_extractor
    /\ aligned_timestamps = NoFun
    /\ steps = <<>>
    /\ dataframe = NoFun

\* one call _trim_excess_spikes(recording_interface, sorting_interface,
\* max_excess_samples) on the pair RecordingVP0 / SortingVP0
TrimCall ==
    /\ variant = "trim"
    /\ pc = "call"
    /\ LET r == trim_excess_spikes(num_samples[RecordingVP0],
                                   sorting_extractor[SortingVP0],
                                   max_excess_samples)
       IN  /\ pc' = IF r.raised THEN "raised" ELSE "returned"
           /\ sorting_extractor' =
                 [sorting_extractor EXCEPT ![SortingVP0] = r.sorting]
    /\ UNCHANGED <<fileVars, sessVars, runVars>>
    /\ UNCHANGED <<variant, data_interface_objects, sync_dir, sync, dataframe,
                   original_timestamps, timestamps, num_samples, registered,
                   max_excess_samples, todo, invocations, entry_timestamps,
                   entry_sorting, aligned_timestamps, steps>>

NextTrim == TrimCall

SpecTrim == InitTrim /\ [][NextTrim]_vars

----------------------------------------------------------------------------
(* Converters *)

Variants == {"piccato", "watters", "wattersnwb"}

\* data_interface_classes, in declaration order
data_interface_classes(v) ==
    IF v = "piccato"
    THEN <<RecordingVP0, SortingVP0, RecordingVP1, SortingVP1, RecordingNP,
           LF, SortingNP, EyePosition, Trials, Display>>
    ELSE <<RecordingVP0, SortingVP0, RecordingVP1, SortingVP1, RecordingNP,
           LF, SortingNP, EyePosition, Trials>>

\* the interfaces a converter builds from the keys of source_data
Construct(v, source_data) ==
    SelectSeq(data_interface_classes(v), LAMBDA n : n \in source_data)

Has(name) == name \in Range(data_interface_objects)

\* the parentheses forgotten: the start offset not scaled by coef
Transform_StartUnscaled(intercept, coef, start, ts) ==
    [i \in 1..Len(ts) |-> intercept + coef * ts[i] + start]

\* the transform a family of probes is aligned with
\* intercept + coef * (start + orig_timestamps)
Transform(intercept, coef, start, ts) ==
    [i \in 1..Len(ts) |-> intercept + coef * (start + ts[i])]

\* the constant bias WattersNWBConverter adds, none in the other converters
Bias == IF variant = "wattersnwb" THEN sync.bias ELSE 0

\* every converter starting from the interface's current timestamps
SourceTimestamps_Current(name) == timestamps[name]

\* the timestamps an alignment starts from: piccato re-reads the original
\* ones, the watters converters take the interface's current ones
SourceTimestamps(name) ==
    IF variant = "piccato" THEN original_timestamps[name]
    ELSE timestamps[name]

\* the loop over the recordings, in the order the code visits them
RecordingsToVisit ==
    IF variant = "piccato"
    THEN SelectSeq(data_interface_objects,
                   LAMBDA n : Contains(n, "Recording"))
    ELSE SelectSeq(<<RecordingVP0, RecordingVP1>>, LAMBDA n : Has(n))
         \o <<RecordingNP>>

\* get_timestamps()[0]; a sorting interface answers with the times of the
\* recording registered to it
FirstTimestamp(name) ==
    IF IsSorting(name) THEN timestamps[registered[name]][1]
    ELSE timestamps[name][1]

\* the sign of the offset forgotten
ZeroTime_NoSign(aligned_start_times) == Min(aligned_start_times)

\* zero_time = -1.0 * min(aligned_start_times)
ZeroTime(aligned_start_times) == (-1) * Min(aligned_start_times)

\* set_aligned_starting_time: shifts every timestamp of the interface
Shift(ts, aligned_starting_time) ==
    [i \in 1..Len(ts) |-> ts[i] + aligned_starting_time]

\* after a probe: the next recording, or the zeroing when none is left
Advance ==
    /\ todo' = Tail(todo)
    /\ pc' = IF Tail(todo) = <<>> THEN "zero" ELSE "load"

\* temporally_align_data_interfaces is called: returns at once without a
\* sync_dir, else starts the loop over the recordings
BeginAlign ==
    /\ variant \in Variants
    /\ pc \in {"idle", "done"}
    /\ invocations < MaxInvocations
    /\ invocations' = invocations + 1
    /\ entry_timestamps' = timestamps
    /\ entry_sorting' = sorting_extractor
    /\ steps' = <<>>
    /\ IF ~sync_dir
       THEN /\ pc' = "done"
            /\ todo' = <<>>
       ELSE /\ todo' = RecordingsToVisit
            /\ pc' = IF RecordingsToVisit = <<>> THEN "zero" ELSE "load"
    /\ UNCHANGED <<fileVars, sessVars, runVars>>
    /\ UNCHANGED <<variant, data_interface_objects, sync_dir, sync, dataframe,
                   original_timestamps, timestamps, num_samples,
                   sorting_extractor, registered, max_excess_samples,
                   aligned_timestamps>>

\* one recording: load its transform and set its aligned timestamps (and
\* those of the LF stream with the Neuropixels recording)
AlignRecording ==
    /\ variant \in Variants
    /\ pc = "load"
    /\ LET name == Head(todo)
           probe_name == ProbeName(name)
           isVP == Contains(probe_name, "VP")
           intercept == IF isVP THEN sync.oe_intercept ELSE sync.np_intercept
           coef == IF isVP THEN sync.oe_coef ELSE sync.np_coef
           start == IF isVP THEN sync.oe_start ELSE 0
           new == Transform(Bias + intercept, coef, start,
                            SourceTimestamps(name))
       IN  /\ timestamps' =
                 IF isVP
                 THEN [timestamps EXCEPT ![name] = new]
                 ELSE [timestamps EXCEPT
                         ![name] = new,
                         ![LF] = Transform(Bias + intercept, coef, start,
                                           SourceTimestamps(LF))]
           /\ steps' = Append(steps, <<"align", name>>)
           /\ IF Has(SortingName(probe_name))
              THEN pc' = "trim" /\ todo' = todo
              ELSE Advance
    /\ UNCHANGED <<fileVars, sessVars, runVars>>
    /\ UNCHANGED <<variant, data_interface_objects, sync_dir, sync, dataframe,
                   original_timestamps, num_samples, sorting_extractor,
                   registered, max_excess_samples, invocations,
                   entry_timestamps, entry_sorting, aligned_timestamps>>

\* the ValueError of _trim_excess_spikes swallowed: the loop goes on
TrimSorting_ErrorIgnored ==
    /\ variant \in Variants
    /\ pc = "trim"
    /\ LET name == Head(todo)
           sorting == SortingName(ProbeName(name))
           r == IF variant = "piccato"
                THEN trim_excess_spikes(num_samples[name],
                                        sorting_extractor[sorting],
                                        max_excess_samples)
                ELSE [raised |-> FALSE,
                      sorting |->
                        IF has_exceeding_spikes(num_samples[name],
                                                sorting_extractor[sorting])
                        THEN remove_excess_spikes(num_samples[name],
                                                  sorting_extractor[sorting])
                        ELSE sorting_extractor[sorting]]
       IN  /\ pc' = "register"
           /\ sorting_extractor' =
                 [sorting_extractor EXCEPT ![sorting] = r.sorting]
           /\ steps' = Append(steps, <<"trim", name>>)
    /\ UNCHANGED <<fileVars, sessVars, runVars>>
    /\ UNCHANGED <<variant, data_interface_objects, sync_dir, sync, dataframe,
                   original_timestamps, timestamps, num_samples, registered,
                   max_excess_samples, todo, invocations, entry_timestamps,
                   entry_sorting, aligned_timestamps>>

\* the spikes past the end of the recording: piccato calls
\* _trim_excess_spikes, which may raise; the watters converters drop whatever
\* has_exceeding_spikes reports
TrimSorting ==
    /\ variant \in Variants
    /\ pc = "trim"
    /\ LET name == Head(todo)
           sorting == SortingName(ProbeName(name))
           r == IF variant = "piccato"
                THEN trim_excess_spikes(num_samples[name],
                                        sorting_extractor[sorting],
                                        max_excess_samples)
                ELSE [raised |-> FALSE,
                      sorting |->
                        IF has_exceeding_spikes(num_samples[name],
                                                sorting_extractor[sorting])
                        THEN remove_excess_spikes(num_samples[name],
                                                  sorting_extractor[sorting])
                        ELSE sorting_extractor[sorting]]
       IN  /\ pc' = IF r.raised THEN "error" ELSE "register"
           /\ sorting_extractor' =
                 [sorting_extractor EXCEPT ![sorting] = r.sorting]
           /\ steps' = Append(steps, <<"trim", name>>)
    /\ UNCHANGED <<fileVars, sessVars, runVars>>
    /\ UNCHANGED <<variant, data_interface_objects, sync_dir, sync, dataframe,
                   original_timestamps, timestamps, num_samples, registered,
                   max_excess_samples, todo, invocations, entry_timestamps,
                   entry_sorting, aligned_timestamps>>

\* sorting_interface.register_recording(recording_interface)
RegisterRecording ==
    /\ variant \in Variants
    /\ pc = "register"
    /\ LET name == Head(todo)
           sorting == SortingName(ProbeName(name))
       IN  /\ registered' = [registered EXCEPT ![sorting] = name]
           /\ steps' = Append(steps, <<"register", name>>)
    /\ Advance
    /\ UNCHANGED <<fileVars, sessVars, runVars>>
    /\ UNCHANGED <<variant, data_interface_objects, sync_dir, sync, dataframe,
                   original_timestamps, timestamps, num_samples,
                   sorting_extractor, max_excess_samples, invocations,
                   entry_timestamps, entry_sorting, aligned_timestamps>>

\* the times of a sorting interface's spikes: the sorting extractor holds
\* the recording extractor that register_recording handed to it, and gives
\* every spike the time that recording has for the spike's sample
spike_times(sorting) ==
    [k \in 1..Len(sorting_extractor[sorting]) |->
        timestamps[registered[sorting]]
                  [sorting_extractor[sorting][k].sample_index + 1]]

\* the interfaces that hold a table, and whose class overrides
\* set_aligned_starting_time column by column: TrialsInterface (piccato and
\* watters nwb_converter) and DisplayInterface (piccato)
TableInterfaces(v) ==
    IF v = "piccato" THEN {Trials, Display}
    ELSE IF v = "watters" THEN {Trials}
    ELSE {}

\* the columns of the trials table, the values of TrialsInterface.KEY_MAP
TrialsTimeColumns ==
    <<"start_time", "phase_fixation_time", "phase_stimulus_time",
      "phase_delay_time", "phase_cue_time", "phase_response_time",
      "phase_reveal_time", "phase_iti_time", "closed_loop_response_time",
      "response_time", "reward_time">>
TrialsOtherColumns ==
    {"background_indices", "broke_fixation", "stimulus_object_identities",
     "stimulus_object_positions", "stimulus_object_velocities",
     "stimulus_object_target", "delay_object_blanks",
     "closed_loop_response_position", "reward_duration",
     "response_position"}

\* the columns of the display table, the values of DisplayInterface.KEY_MAP
DisplayColumns == {"closed_loop_eye_position", "task_phase", "start_time"}

IndexOf(seq, x) == CHOOSE i \in 1..Len(seq) : seq[i] = x

\* _read_file: one row per trial (per frame); the k-th time column of a
\* trial lies k - 1 ticks after the trial's start, reward_duration is a
\* length of time, the positions are pairs, the other columns are labels
read_file(name, start_times) ==
    LET rows == 1..Len(start_times) IN
    IF name = Trials
    THEN [c \in Range(TrialsTimeColumns) \cup TrialsOtherColumns |->
             IF c \in Range(TrialsTimeColumns)
             THEN [i \in rows |->
                      start_times[i] + IndexOf(TrialsTimeColumns, c) - 1]
             ELSE IF c = "reward_duration" THEN [i \in rows |-> 2 * i]
             ELSE IF c \in {"response_position",
                            "closed_loop_response_position"}
                  THEN [i \in rows |-> <<i, -i>>]
             ELSE [i \in rows |-> c]]
    ELSE [c \in DisplayColumns |->
             IF c = "start_time" THEN start_times
             ELSE IF c = "closed_loop_eye_position"
                  THEN [i \in 1..Len(start_times) |-> <<i, -i>>]
             ELSE [i \in 1..Len(start_times) |-> c]]

\* the reward_time line forgotten
trials_set_aligned_starting_time_NoReward(df, aligned_starting_time) ==
    [df EXCEPT
        !["closed_loop_response_time"] = Shift(@, aligned_starting_time),
        !["start_time"] = Shift(@, aligned_starting_time),
        !["phase_fixation_time"] = Shift(@, aligned_starting_time),
        !["phase_stimulus_time"] = Shift(@, aligned_starting_time),
        !["phase_delay_time"] = Shift(@, aligned_starting_time),
        !["phase_cue_time"] = Shift(@, aligned_starting_time),
        !["phase_response_time"] = Shift(@, aligned_starting_time),
        !["phase_reveal_time"] = Shift(@, aligned_starting_time),
        !["phase_iti_time"] = Shift(@, aligned_starting_time),
        !["response_time"] = Shift(@, aligned_starting_time)]

\* TrialsInterface.set_aligned_starting_time
trials_set_aligned_starting_time(df, aligned_starting_time) ==
    [df EXCEPT
        !["closed_loop_response_time"] = Shift(@, aligned_starting_time),
        !["start_time"] = Shift(@, aligned_starting_time),
        !["phase_fixation_time"] = Shift(@, aligned_starting_time),
        !["phase_stimulus_time"] = Shift(@, aligned_starting_time),
        !["phase_delay_time"] = Shift(@, aligned_starting_time),
        !["phase_cue_time"] = Shift(@, aligned_starting_time),
        !["phase_response_time"] = Shift(@, aligned_starting_time),
        !["phase_reveal_time"] = Shift(@, aligned_starting_time),
        !["phase_iti_time"] = Shift(@, aligned_starting_time),
        !["reward_time"] = Shift(@, aligned_starting_time),
        !["response_time"] = Shift(@, aligned_starting_time)]

\* DisplayInterface.set_aligned_starting_time
display_set_aligned_starting_time(df, aligned_starting_time) ==
    [df EXCEPT !["start_time"] = Shift(@, aligned_starting_time)]

\* the zeroing: the smallest first timestamp of all interfaces becomes time
\* zero of every interface but the sortings; a table interface shifts its
\* columns, and its timestamps are its start_time column
ZeroAll ==
    /\ variant \in Variants
    /\ pc = "zero"
    /\ LET aligned_start_times ==
              {FirstTimestamp(n) : n \in Range(data_interface_objects)}
           zero_time == ZeroTime(aligned_start_times)
           shifted ==
              [n \in DOMAIN dataframe |->
                  IF n = Trials
                  THEN trials_set_aligned_starting_time(dataframe[n],
                                                        zero_time)
                  ELSE display_set_aligned_starting_time(dataframe[n],
                                                         zero_time)]
       IN  /\ dataframe' = shifted
           /\ timestamps' =
                 [n \in DOMAIN timestamps |->
                     IF n \in DOMAIN shifted THEN shifted[n]["start_time"]
                     ELSE IF Has(n) /\ ~IsSorting(n)
                     THEN Shift(timestamps[n], zero_time)
                     ELSE timestamps[n]]
    /\ aligned_timestamps' = timestamps
    /\ steps' = Append(steps, <<"zero", <<>> >>)
    /\ pc' = "done"
    /\ UNCHANGED <<fileVars, sessVars, runVars>>
    /\ UNCHANGED <<variant, data_interface_objects, sync_dir, sync,
                   original_timestamps, num_samples, sorting_extractor,
                   registered, max_excess_samples, todo, invocations,
                   entry_timestamps, entry_sorting>>

----------------------------------------------------------------------------
(* Inputs of the alignment specification *)

Intercepts == {-3, 2}
Coefs      == {1, 2}
Starts     == {0, 4}
Biases     == {0, 5}
\* first timestamp of a behaviour stream
BehaviorStarts == {-1, 3}

\* the keys of source_data the sessions are converted with
SourceDatas ==
    { {RecordingVP0, RecordingVP1, RecordingNP, LF},
      {RecordingVP0, SortingVP0, RecordingNP, LF, SortingNP, EyePosition,
       Trials},
      {RecordingNP, LF, SortingNP, Trials, Display} }

\* a recording's timestamps as its extractor first reports them
RecordingTimes(step) == [i \in 1..NumSamples |-> step * (i - 1)]
BehaviorTimes(t0)    == [i \in 1..NumSamples |-> t0 + 3 * (i - 1)]

Spike(seg, smp) == [segment_index |-> seg, sample_index |-> smp]

\* spike vectors of a one-segment sorting: inside the recording, past its
\* end within the slack, past its end beyond the slack
AlignSpikeVectors ==
    { <<Spike(0, 0)>>,
      <<Spike(0, NumSamples - 1), Spike(0, NumSamples + MaxExcessSamples - 1)>>,
      <<Spike(0, 0), Spike(0, NumSamples + MaxExcessSamples)>> }

NonSortings(objs) == {n \in Range(objs) : ~IsSorting(n)}
Sortings(objs)    == {n \in Range(objs) : IsSorting(n)}

Init ==
    /\ IdleRuns
    /\ IdleFiles
    /\ IdleSession
    /\ variant \in Variants
    /\ \E source_data \in SourceDatas :
          data_interface_objects = Construct(variant, source_data)
    /\ sync_dir \in BOOLEAN
    /\ \E oi \in Intercepts, oc \in Coefs, os \in Starts,
          ni \in Intercepts, nc \in Coefs,
          b \in (IF variant = "wattersnwb" THEN Biases ELSE {0}) :
          sync = [oe_intercept |-> oi, oe_coef |-> oc, oe_start |-> os,
                  np_intercept |-> ni, np_coef |-> nc, bias |-> b]
    /\ \E b0 \in [ {EyePosition, Trials, Display}
                      \cap Range(data_interface_objects) -> BehaviorStarts] :
          original_timestamps =
             [n \in NonSortings(data_interface_objects) |->
                 IF n \in DOMAIN b0 THEN BehaviorTimes(b0[n])
                 ELSE IF n = LF THEN RecordingTimes(2)
                 ELSE RecordingTimes(1)]
    /\ timestamps = original_timestamps
    /\ num_samples =
          [n \in {m \in Range(data_interface_objects) :
                     Contains(m, "Recording")} |-> <<NumSamples>>]
    /\ sorting_extractor \in
          [Sortings(data_interface_objects) -> AlignSpikeVectors]
    /\ registered = [n \in Sortings(data_interface_objects) |-> NoRecording]
    /\ max_excess_samples = MaxExcessSamples
    /\ pc = "idle"
    /\ todo = <<>>
    /\ invocations = 0
    /\ entry_timestamps = timestamps
    /\ entry_sorting = sorting_extractor
    /\ aligned_timestamps = timestamps
    /\ steps = <<>>
    /\ dataframe =
          [n \in TableInterfaces(variant) \cap Range(data_interface_objects)
              |-> read_file(n, original_timestamps[n])]

Next ==
    \/ BeginAlign
    \/ AlignRecording
    \/ TrimSorting
    \/ RegisterRecording
    \/ ZeroAll

Spec == Init /\ [][Next]_vars

----------------------------------------------------------------------------
(* Claims about the alignment, checked under Spec *)

WattersVariants == {"watters", "wattersnwb"}

\* the transform parameters of the family a recording (or LF) belongs to
FamilyIntercept(name) ==
    IF Contains(name, "VP") THEN sync.oe_intercept ELSE sync.np_intercept
FamilyCoef(name) ==
    IF Contains(name, "VP") THEN sync.oe_coef ELSE sync.np_coef
FamilyStart(name) ==
    IF Contains(name, "VP") THEN sync.oe_start ELSE 0

\* the recordings and the LF stream of the converter
AlignedStreams ==
    {n \in Range(data_interface_objects) :
        Contains(n, "Recording") \/ (n = LF /\ Has(RecordingNP))}

\* C1: in the piccato converter with a sync_dir, when the loop over the
\* recordings has ended and the zeroing has not yet run, every interface
\* whose name contains "Recording", and the LF interface, has the timestamps
\* intercept + coef * (start + original[i]) for every sample i: the family's
\* transform, start the recording start time for VP probes and 0 for NP and
\* LF, original the timestamps as first read, whatever earlier calls did.
C1_PiccatoAlignedFromOriginal ==
    (variant = "piccato" /\ pc = "zero") =>
        \A n \in AlignedStreams :
            timestamps[n] =
                [i \in 1..Len(original_timestamps[n]) |->
                    FamilyIntercept(n)
                    + FamilyCoef(n)
                      * (FamilyStart(n) + original_timestamps[n][i])]

\* C1 witness: the second call on a piccato converter with a V-probe and
\* the LF stream has aligned its recordings, with a start offset and a slope
\* that matter
C1_Witness ==
    /\ variant = "piccato"
    /\ pc = "zero"
    /\ invocations = 2
    /\ Has(RecordingVP0) /\ Has(LF)
    /\ sync.oe_start # 0 /\ sync.oe_coef # 1 /\ sync.np_coef # 1

\* C2: after temporally_align_data_interfaces has completed with a sync_dir,
\* the smallest first timestamp over all interfaces of the converter is
\* exactly zero and no interface other than a sorting starts before zero.
C2_EarliestIsZero ==
    (variant \in Variants /\ pc = "done" /\ sync_dir /\ invocations > 0) =>
        /\ Min({FirstTimestamp(n) : n \in Range(data_interface_objects)}) = 0
        /\ \A n \in NonSortings(data_interface_objects) :
              timestamps[n][1] >= 0

\* C2 witness: a completed alignment in which no stream started at zero
\* before the zeroing and a behaviour stream is the earliest
C2_Witness ==
    /\ variant \in Variants
    /\ pc = "done" /\ sync_dir /\ invocations > 0
    /\ Has(Trials)
    /\ \A n \in NonSortings(data_interface_objects) :
          aligned_timestamps[n][1] # 0
    /\ timestamps[Trials][1] = 0
    /\ timestamps[RecordingNP][1] > 0

\* some spike of the vector lies more than max_excess samples past the end
\* of its recording segment
BeyondSlack(n_samples, spike_vector, max_excess) ==
    \E i \in 1..Len(spike_vector) :
        spike_vector[i].sample_index
            - n_samples[spike_vector[i].segment_index + 1] + 1 > max_excess

\* C5 (as claimed): in the watters converters a sorting whose spikes lie more
\* than the slack past the end of its recording never gets as far as the
\* registration of its recording: the alignment has been aborted before.
C5_WattersHardError ==
    (variant \in WattersVariants /\ pc = "register") =>
        ~BeyondSlack(num_samples[Head(todo)],
                     entry_sorting[SortingName(ProbeName(Head(todo)))],
                     MaxExcessSamples)

----------------------------------------------------------------------------
(* Claims about _trim_excess_spikes, checked under SpecTrim *)

\* the spikes of a segment in a spike vector
SegmentSpikes(spike_vector, seg) ==
    {sp \in Range(spike_vector) : sp.segment_index = seg}

\* the excess of a segment that has spikes: its last spike's sample index,
\* minus the sample count of the recording segment, plus one
SegmentExcess(spike_vector, seg) ==
    LET S == SegmentSpikes(spike_vector, seg)
        last == CHOOSE sp \in S : \A o \in S : o.sample_index <= sp.sample_index
    IN  last.sample_index - num_samples[RecordingVP0][seg + 1] + 1

TrimSegments == 0..(Len(num_samples[RecordingVP0]) - 1)

\* C3: _trim_excess_spikes raises exactly when some recording segment that
\* has spikes has an excess greater than max_excess_samples; an excess equal
\* to max_excess_samples is not an error.
C3_RaisesIffBeyondSlack ==
    (variant = "trim" /\ pc # "call") =>
        ((pc = "raised") <=>
            \E seg \in TrimSegments :
                /\ SegmentSpikes(entry_sorting[SortingVP0], seg) # {}
                /\ SegmentExcess(entry_sorting[SortingVP0], seg)
                       > max_excess_samples)

\* C3 witness: a normal return with the default slack where a segment's
\* excess is exactly the slack
C3_Witness ==
    /\ variant = "trim"
    /\ pc = "returned"
    /\ max_excess_samples = MaxExcessSamples
    /\ \E seg \in TrimSegments :
          /\ SegmentSpikes(entry_sorting[SortingVP0], seg) # {}
          /\ SegmentExcess(entry_sorting[SortingVP0], seg) = MaxExcessSamples

\* a spike inside its recording segment
Inside(sp) == sp.sample_index < num_samples[RecordingVP0][sp.segment_index + 1]

\* C4: when _trim_excess_spikes returns normally the sorting extractor holds
\* exactly the spikes it held before that lie inside their recording
\* segment: none at or past the sample count, none inside lost.
C4_OnlyInsideSpikesKept ==
    (variant = "trim" /\ pc = "returned") =>
        /\ \A i \in 1..Len(sorting_extractor[SortingVP0]) :
              Inside(sorting_extractor[SortingVP0][i])
        /\ Range(sorting_extractor[SortingVP0])
              = {sp \in Range(entry_sorting[SortingVP0]) : Inside(sp)}

\* C4 witness: a normal return that dropped spikes past the end of one
\* segment and kept spikes inside
C4_Witness ==
    /\ variant = "trim"
    /\ pc = "returned"
    /\ Len(sorting_extractor[SortingVP0]) > 0
    /\ Len(sorting_extractor[SortingVP0]) < Len(entry_sorting[SortingVP0])

----------------------------------------------------------------------------
(* _get_single_file *)

\* file names, character by character
FileNames ==
    { <<"a", ".", "d">>, <<"b", ".", "d">>, <<"a", ".", "x">>,
      <<".", "d">>, <<"d">>, <<"a", "d">> }

Suffixes == { <<>>, <<".", "d">>, <<"d">>, <<"x">>, <<"b", ".", "d">> }

\* name ends with the characters of sfx
EndsWith(name, sfx) ==
    /\ Len(sfx) <= Len(name)
    /\ SubSeq(name, Len(name) - Len(sfx) + 1, Len(name)) = sfx

\* glob's match of the pattern "*{suffix}" against a directory entry: the
\* star takes any leading characters, but no entry that starts with a dot
GlobMatch(name, sfx) == EndsWith(name, sfx) /\ name[1] # "."

\* the orders glob.glob may list a set of entries in
Listings(S) ==
    {f \in [1..Cardinality(S) -> S] : \A x \in S : \E i \in DOMAIN f : f[i] = x}

\* the checks of _get_single_file on the list glob returned, without the
\* check for several files
get_single_file_NoMultipleCheck(files) ==
    IF Len(files) = 0
    THEN [raised |-> TRUE, path |-> NoPath]
    ELSE [raised |-> FALSE, path |-> files[1]]

\* the checks of _get_single_file on the list glob returned
get_single_file(files) ==
    IF Len(files) = 0
    THEN [raised |-> TRUE, path |-> NoPath]
    ELSE IF Len(files) > 1
         THEN [raised |-> TRUE, path |-> NoPath]
         ELSE [raised |-> FALSE, path |-> files[1]]

InitFiles ==
    /\ IdleRuns
    /\ IdleConverter
    /\ IdleSession
    /\ variant = "files"
    /\ pc = "call"
    /\ directory \in SUBSET FileNames
    /\ suffix \in Suffixes
    /\ result = NoPath

\* one call _get_single_file(directory, suffix)
GetSingleFile ==
    /\ variant = "files"
    /\ pc = "call"
    /\ \E files \in Listings({f \in directory : GlobMatch(f, suffix)}) :
          LET r == get_single_file(files)
          IN  /\ pc' = IF r.raised THEN "raised" ELSE "returned"
              /\ result' = r.path
    /\ UNCHANGED <<variant, directory, suffix, convOnly, sessVars, runVars>>

NextFiles == GetSingleFile

SpecFiles == InitFiles /\ [][NextFiles]_vars

\* the entries of the directory that match "*{suffix}"
Matching ==
    {f \in directory :
        /\ f[1] # "."
        /\ \E k \in 0..Len(f) :
              /\ Len(f) - k = Len(suffix)
              /\ \A i \in 1..Len(suffix) : f[k + i] = suffix[i]}

\* C7: _get_single_file returns the matching entry when exactly one entry of
\* the directory matches "*{suffix}", and raises when none or more than one
\* match; it never returns one of several matches.
C7_SingleMatchOrError ==
    (variant = "files" /\ pc # "call") =>
        /\ Cardinality(Matching) = 1 => (pc = "returned" /\ result \in Matching)
        /\ Cardinality(Matching) = 0 => (pc = "raised" /\ result = NoPath)
        /\ Cardinality(Matching) > 1 => (pc = "raised" /\ result = NoPath)

\* C7 witness: the one matching entry is returned from a directory that
\* holds other entries as well
C7_Witness ==
    /\ variant = "files"
    /\ pc = "returned"
    /\ Cardinality(directory) > 2
    /\ suffix # <<>>
    /\ result \in directory

----------------------------------------------------------------------------
(* main_convert_session.py: the command line and session_to_nwb.  A string
   is a sequence of tokens, so that splitting at "/" and building the file
   names are computed. *)

Scripts == {"watters", "neupane", "ramadan", "piccato"}

_BEHAVIOR_TASK_CONV_TYPE == <<"behavior+task">>
_ECEPHYS_CONV_TYPE == <<"ecephys">>
_SPIKES_CONV_TYPE == <<"spikes">>

_REPO == "openmind"

\* _STUB_TEST of each script
_STUB_TEST(script) == script # "ramadan"

\* the keys of _SUBJECT_TO_SEX and _SUBJECT_TO_AGE of each script
_SUBJECT_TO_SEX(script) ==
    CASE script = "watters" -> { <<"Perle">>, <<"Elgar">> }
      [] script = "piccato" -> { <<"elgar">> }
      [] script = "neupane" -> { <<"amadeus">> }
      [] script = "ramadan" -> { <<"amadeus">> }

RECURSIVE Split(_, _)
\* s.split(sep)
Split(s, sep) ==
    IF \E i \in 1..Len(s) : s[i] = sep
    THEN LET i == CHOOSE k \in 1..Len(s) :
                      /\ s[k] = sep
                      /\ \A j \in 1..(k - 1) : s[j] # sep
         IN  <<SubSeq(s, 1, i - 1)>> \o Split(SubSeq(s, i + 1, Len(s)), sep)
    ELSE <<s>>

NoArgs == [raised |-> TRUE, subject |-> NoString, session |-> NoString,
           conversion_type |-> NoString]

\* the __main__ block of a script: what it hands to session_to_nwb
main(script, args) ==
    IF script = "piccato"
    THEN IF Len(args) < 2
         THEN NoArgs
         ELSE LET parts == Split(args[1], "/")
              IN  IF Len(parts) < 2
                  THEN NoArgs
                  ELSE [raised |-> FALSE, subject |-> parts[1],
                        session |-> parts[2], conversion_type |-> args[2]]
    ELSE IF Len(args) < 2
         THEN NoArgs
         ELSE [raised |-> FALSE, subject |-> args[1], session |-> args[2],
               conversion_type |-> NoString]

\* SUBJECT_NAME_TO_ID of each get_session_paths module
SUBJECT_NAME_TO_ID(module) ==
    CASE module = "watters" -> { <<"Perle">>, <<"Elgar">> }
      [] module = "ramadan" -> { <<"Perle">>, <<"Elgar">> }
      [] module = "piccato" -> { <<"elgar">> }
      [] module = "neupane" -> {}

\* the fields of the SessionPaths namedtuple of each module
SessionPaths(module) ==
    CASE module = "watters" ->
            {"output", "raw_data", "data_open_source", "task_behavior_data",
             "sync_pulses", "spike_sorting_raw"}
      [] module = "neupane" ->
            {"output", "ecephys", "behavior", "spike_sorting", "sync_pulses",
             "session_start_time"}
      [] module = "ramadan" -> {"behavior", "phys", "output"}
      [] module = "piccato" ->
            {"output", "raw_data", "task_behavior_data", "sync_pulses",
             "spike_sorting_raw"}

PathsError(e) ==
    [raised |-> TRUE, error |-> e, fields |-> {}, output_is_path |-> FALSE]

\* _get_session_paths_openmind of each module
_get_session_paths_openmind(module, subj) ==
    IF module = "watters" /\ subj \notin SUBJECT_NAME_TO_ID(module)
    THEN PathsError("KeyError")
    ELSE [raised |-> FALSE, error |-> "none",
          fields |-> SessionPaths(module),
          output_is_path |-> module # "piccato"]

\* _get_session_paths_globus of each module (neupane has none); the keywords
\* it passes to SessionPaths are those of the watters namedtuple
_get_session_paths_globus(module, subj) ==
    IF subj \notin SUBJECT_NAME_TO_ID(module)
    THEN PathsError("KeyError")
    ELSE IF SessionPaths("watters") # SessionPaths(module)
         THEN PathsError("TypeError")
         ELSE [raised |-> FALSE, error |-> "none",
               fields |-> SessionPaths(module), output_is_path |-> TRUE]

\* get_session_paths(subject, session, repo) of each module
get_session_paths(module, subj, repo) ==
    CASE module = "ramadan" -> _get_session_paths_openmind(module, subj)
      [] module = "neupane" ->
            IF repo = "openmind"
            THEN _get_session_paths_openmind(module, subj)
            ELSE PathsError("ValueError")
      [] OTHER ->
            IF repo = "openmind"
            THEN _get_session_paths_openmind(module, subj)
            ELSE IF repo = "globus"
                 THEN _get_session_paths_globus(module, subj)
                 ELSE PathsError("ValueError")

\* building the source data in session_to_nwb: the exception it ends with,
\* "none" when it gets through.  e.ecephys_exists: the probe directories are
\* there; e.single_file: every _get_single_file finds one file and the
\* behaviour file loads.
add_source_data(script, sp, e, ctype) ==
    CASE script = "watters" ->
            IF "raw_data" \notin sp.fields THEN "AttributeError"
            ELSE IF e.ecephys_exists /\ ~e.single_file THEN "ValueError"
            ELSE IF /\ e.ecephys_exists
                    /\ ~({"data_open_source", "spike_sorting_raw"}
                            \subseteq sp.fields)
                 THEN "AttributeError"
            ELSE IF "task_behavior_data" \notin sp.fields
                 THEN "AttributeError"
            ELSE "none"
      [] script = "neupane" ->
            IF "ecephys" \notin sp.fields THEN "AttributeError"
            \* _add_v_probe_data returned None
            ELSE IF ~e.ecephys_exists THEN "AttributeError"
            ELSE IF ~e.single_file THEN "ValueError"
            ELSE IF "spike_sorting" \notin sp.fields THEN "AttributeError"
            ELSE IF "behavior" \notin sp.fields THEN "AttributeError"
            ELSE "none"
      [] script = "ramadan" ->
            IF "behavior" \notin sp.fields THEN "AttributeError"
            ELSE IF ~e.single_file THEN "OSError"
            ELSE "none"
      [] script = "piccato" ->
            IF "ecephys_data" \notin sp.fields THEN "AttributeError"
            ELSE IF ~e.single_file THEN "ValueError"
            ELSE IF /\ ctype = _SPIKES_CONV_TYPE
                    /\ "spike_sorting_raw" \notin sp.fields
                 THEN "AttributeError"
            \* raw_source_data and raw_conversion_options are not defined
            ELSE IF ctype = _ECEPHYS_CONV_TYPE THEN "NameError"
            ELSE IF /\ ctype = _BEHAVIOR_TASK_CONV_TYPE
                    /\ "behavior_task_data" \notin sp.fields
                 THEN "AttributeError"
            ELSE "none"

\* _update_metadata without the check of session_start_time
_update_metadata_NoStartTimeCheck(script, sp, e, subj) ==
    IF subj \notin _SUBJECT_TO_SEX(script) THEN "KeyError"
    ELSE IF script = "watters" /\ "data_open_source" \notin sp.fields
         THEN "AttributeError"
    ELSE IF script = "piccato" /\ "session_data" \notin sp.fields
         THEN "AttributeError"
    ELSE "none"

\* _update_metadata: the exception it ends with, "none" when it returns
_update_metadata(script, sp, e, subj) ==
    IF subj \notin _SUBJECT_TO_SEX(script) THEN "KeyError"
    ELSE IF script = "watters" /\ "data_open_source" \notin sp.fields
         THEN "AttributeError"
    ELSE IF script = "piccato" /\ "session_data" \notin sp.fields
         THEN "AttributeError"
    ELSE IF script \in {"watters", "piccato"} /\ ~e.start_time
         THEN "ValueError"
    ELSE "none"

\* f"sub-{subject}_ses-{session_id}_{kind}.nwb"
NwbName(subj, sid, kind) ==
    <<"sub-">> \o subj \o <<"_ses-">> \o sid \o <<"_">> \o kind \o <<".nwb">>

raw_nwb_path == NwbName(subject, session_id, <<"ecephys">>)

processed_nwb_path == NwbName(subject, session_id, <<"behavior+ecephys">>)

\* nwb_path of piccato's session_to_nwb
nwb_path == NwbName(subject, session_id, conversion_type)

Subjects == { <<"Perle">>, <<"elgar">>, <<"amadeus">> }

Sessions == { <<"2022-06-01">> }

ConversionTypes ==
    {_ECEPHYS_CONV_TYPE, _BEHAVIOR_TASK_CONV_TYPE, _SPIKES_CONV_TYPE,
     <<"raw">>}

\* command lines: the documented one, the documented one followed by a
\* conversion type, "subject/session" followed by a conversion type, and one
\* that stops after the subject
Argvs ==
    UNION { { <<subj, sess>>, <<subj>> }
            \cup { <<subj, sess, c>> : c \in ConversionTypes }
            \cup { <<subj \o <<"/">> \o sess, c>> : c \in ConversionTypes }
          : <<subj, sess>> \in Subjects \X Sessions }

\* env.module: the get_session_paths module the script's bare
\* "import get_session_paths" is bound to by the module search path
Envs ==
    [module : Scripts, ecephys_exists : BOOLEAN, single_file : BOOLEAN,
     start_time : BOOLEAN]

InitSession ==
    /\ IdleRuns
    /\ IdleConverter
    /\ IdleFiles
    /\ variant \in Scripts
    /\ env \in Envs
    /\ session_paths = NoFun
    /\ session_id = NoString
    /\ runs = <<>>
    /\ nwb_files = {}
    /\ error = "none"
    /\ \/ /\ pc = "main"
          /\ argv \in Argvs
          /\ subject = NoString
          /\ session = NoString
          /\ conversion_type = NoString
          /\ stub_test = FALSE
       \/ /\ pc = "session"
          /\ argv = <<>>
          /\ subject \in Subjects
          /\ session \in Sessions
          /\ conversion_type \in
                IF variant = "piccato" THEN ConversionTypes ELSE {NoString}
          /\ stub_test \in BOOLEAN

\* the run ends with exception e
Fail(e) == pc' = "failed" /\ error' = e

\* the __main__ block up to the call of session_to_nwb
Main ==
    /\ variant \in Scripts
    /\ pc = "main"
    /\ LET r == main(variant, argv)
       IN  IF r.raised
           THEN /\ Fail("IndexError")
                /\ UNCHANGED <<subject, session, conversion_type, stub_test>>
           ELSE /\ pc' = "session"
                /\ subject' = r.subject
                /\ session' = r.session
                /\ conversion_type' = r.conversion_type
                /\ stub_test' = _STUB_TEST(variant)
                /\ UNCHANGED error
    /\ UNCHANGED <<variant, argv, env, session_paths, session_id, runs,
                   nwb_files, convOnly, fileVars, runVars>>

\* session_to_nwb: get_session_paths, output.mkdir, session_id
GetPaths ==
    /\ variant \in Scripts
    /\ pc = "session"
    /\ LET sp == get_session_paths(env.module, subject, _REPO)
       IN  IF sp.raised
           THEN /\ Fail(sp.error)
                /\ UNCHANGED <<session_paths, session_id>>
           ELSE /\ session_paths' =
                       [fields |-> sp.fields,
                        output_is_path |-> sp.output_is_path]
                /\ IF ~sp.output_is_path
                   THEN Fail("AttributeError") /\ UNCHANGED session_id
                   ELSE /\ pc' = "source"
                        /\ session_id' =
                              IF stub_test THEN session \o <<"-stub">>
                              ELSE IF variant = "piccato"
                                   THEN session \o <<"-full">>
                                   ELSE session
                        /\ UNCHANGED error
    /\ UNCHANGED <<variant, argv, subject, session, conversion_type,
                   stub_test, env, runs, nwb_files, convOnly, fileVars, runVars>>

\* session_to_nwb: the source data and conversion options are filled in
AddSourceData ==
    /\ variant \in Scripts
    /\ pc = "source"
    /\ LET e == add_source_data(variant, session_paths, env, conversion_type)
       IN  IF e # "none"
           THEN Fail(e)
           ELSE /\ UNCHANGED error
                \* no branch of piccato's session_to_nwb takes another type
                /\ pc' = IF /\ variant = "piccato"
                            /\ conversion_type \notin
                                  {_ECEPHYS_CONV_TYPE,
                                   _BEHAVIOR_TASK_CONV_TYPE,
                                   _SPIKES_CONV_TYPE}
                         THEN "finished"
                         ELSE "converters"
    /\ UNCHANGED <<variant, argv, subject, session, conversion_type,
                   stub_test, env, session_paths, session_id, runs,
                   nwb_files, convOnly, fileVars, runVars>>

\* session_to_nwb: the converters are built with sync_dir=sync_pulses
CreateConverters ==
    /\ variant \in Scripts
    /\ pc = "converters"
    /\ IF "sync_pulses" \notin session_paths.fields
       THEN Fail("AttributeError")
       ELSE pc' = "metadata" /\ UNCHANGED error
    /\ UNCHANGED <<variant, argv, subject, session, conversion_type,
                   stub_test, env, session_paths, session_id, runs,
                   nwb_files, convOnly, fileVars, runVars>>

\* session_to_nwb: get_metadata and _update_metadata
UpdateMetadata ==
    /\ variant \in Scripts
    /\ pc = "metadata"
    /\ LET e == _update_metadata(variant, session_paths, env, subject)
       IN  IF e # "none"
           THEN Fail(e)
           ELSE pc' = "run" /\ UNCHANGED error
    /\ UNCHANGED <<variant, argv, subject, session, conversion_type,
                   stub_test, env, session_paths, session_id, runs,
                   nwb_files, convOnly, fileVars, runVars>>

\* session_to_nwb: the first run_conversion (the processed converter's;
\* piccato: the one of the conversion type, and for spikes
\* _add_curated_sorting_data, which removes the file and writes it again)
RunConversion ==
    /\ variant \in Scripts
    /\ pc = "run"
    /\ LET path == IF variant = "piccato" THEN nwb_path
                   ELSE processed_nwb_path
       IN  /\ runs' = Append(runs, path)
           /\ nwb_files' = nwb_files \cup {path}
    /\ IF variant \in {"watters", "neupane"}
       THEN pc' = "run_raw" /\ UNCHANGED error
       ELSE IF /\ variant = "piccato"
               /\ conversion_type = _SPIKES_CONV_TYPE
               /\ "postprocessed_data" \notin session_paths.fields
            THEN Fail("AttributeError")
            ELSE pc' = "finished" /\ UNCHANGED error
    /\ UNCHANGED <<variant, argv, subject, session, conversion_type,
                   stub_test, env, session_paths, session_id, convOnly,
                   fileVars, runVars>>

\* session_to_nwb: run_conversion of the raw converter
RunRawConversion ==
    /\ variant \in {"watters", "neupane"}
    /\ pc = "run_raw"
    /\ runs' = Append(runs, raw_nwb_path)
    /\ nwb_files' = nwb_files \cup {raw_nwb_path}
    /\ pc' = "finished"
    /\ UNCHANGED <<variant, argv, subject, session, conversion_type,
                   stub_test, env, session_paths, session_id, error,
                   convOnly, fileVars, runVars>>

NextSession ==
    \/ Main
    \/ GetPaths
    \/ AddSourceData
    \/ CreateConverters
    \/ UpdateMetadata
    \/ RunConversion
    \/ RunRawConversion

SpecSession == InitSession /\ [][NextSession]_vars

\* C8: a session_to_nwb run that finishes without error has written exactly
\* two NWB files, ..._behavior+ecephys.nwb first and ..._ecephys.nwb second,
\* in every script.
C8_TwoFilesProcessedThenRaw ==
    (variant \in Scripts /\ pc = "finished") =>
        /\ runs = <<processed_nwb_path, raw_nwb_path>>
        /\ nwb_files = {processed_nwb_path, raw_nwb_path}
        /\ Cardinality(nwb_files) = 2

\* the arguments of the command line
IsCommandLine ==
    /\ variant \in Scripts
    /\ Len(argv) >= IF variant = "piccato" THEN 3 ELSE 2

\* C9: a command line "subject session" (piccato: "subject session
\* conversion_type") reaches session_to_nwb with subject the first argument
\* and session the second (piccato: conversion_type the third), unchanged.
C9_ArgumentsPassedUnchanged ==
    (IsCommandLine /\ pc # "main") =>
        /\ pc # "failed" \/ error # "IndexError"
        /\ subject = argv[1]
        /\ session = argv[2]
        /\ variant = "piccato" => conversion_type = argv[3]

\* C10: piccato's session_to_nwb, for each of its three conversion types,
\* builds the source data, reaches run_conversion and, unless the metadata
\* is rejected, ends with exactly one NWB file, named
\* sub-{subject}_ses-{session}-stub_{type}.nwb in stub mode and
\* sub-{subject}_ses-{session}-full_{type}.nwb otherwise.
C10_PiccatoOneFilePerType ==
    (/\ variant = "piccato"
     /\ conversion_type \in
           {_ECEPHYS_CONV_TYPE, _BEHAVIOR_TASK_CONV_TYPE, _SPIKES_CONV_TYPE}
     /\ subject \in _SUBJECT_TO_SEX("piccato")
     /\ env.single_file
     /\ env.start_time
     /\ pc \in {"finished", "failed"}) =>
        /\ pc = "finished"
        /\ nwb_files =
              {NwbName(subject,
                       session \o (IF stub_test THEN <<"-stub">>
                                   ELSE <<"-full">>),
                       conversion_type)}

----------------------------------------------------------------------------
(* get_session_paths called on its own *)

Repos == {"openmind", "globus", "local"}

PathSubjects == Subjects \cup { <<"Elgar">> }

PathSessions == { <<"2022-06-01">>, <<"2022-06-02">> }

InitPaths ==
    /\ IdleRuns
    /\ IdleConverter
    /\ IdleFiles
    /\ variant \in Scripts
    /\ pc = "call"
    /\ argv = <<>>
    /\ subject \in PathSubjects
    /\ session \in PathSessions
    /\ conversion_type = NoString
    /\ stub_test = FALSE
    /\ env \in [repo : Repos]
    /\ session_paths = NoFun
    /\ session_id = NoString
    /\ runs = <<>>
    /\ nwb_files = {}
    /\ error = "none"

\* one call get_session_paths(subject, session, repo=env.repo) of the module
\* named by variant
GetSessionPaths ==
    /\ variant \in Scripts
    /\ pc = "call"
    /\ LET sp == get_session_paths(variant, subject, env.repo)
       IN  IF sp.raised
           THEN /\ pc' = "raised"
                /\ error' = sp.error
                /\ UNCHANGED session_paths
           ELSE /\ pc' = "returned"
                /\ session_paths' =
                      [fields |-> sp.fields,
                       output_is_path |-> sp.output_is_path]
                /\ UNCHANGED error
    /\ UNCHANGED <<variant, argv, subject, session, conversion_type,
                   stub_test, env, session_id, runs, nwb_files, convOnly,
                   fileVars, runVars>>

NextPaths == GetSessionPaths

SpecPaths == InitPaths /\ [][NextPaths]_vars

\* the subject is one the module has an id for, where it looks one up
KnownSubject ==
    \/ SUBJECT_NAME_TO_ID(variant) = {}
    \/ subject \in SUBJECT_NAME_TO_ID(variant)

\* C11: in every module, get_session_paths returns a SessionPaths with every
\* declared field when repo is "openmind" or "globus", and raises ValueError
\* for every other repo.
C11_PathsOrValueError ==
    (variant \in Scripts /\ pc # "call" /\ KnownSubject) =>
        IF env.repo \in {"openmind", "globus"}
        THEN pc = "returned" /\ session_paths.fields = SessionPaths(variant)
        ELSE pc = "raised" /\ error = "ValueError"

----------------------------------------------------------------------------
(* watters/timeseries_interface.py: the constructors of the behavioural
   timeseries interfaces.  Times are in ticks of 0.1 ms. *)

MaxEyeSamples == 2

\* atol=0.0005 of the np.allclose call, in ticks
Atol == 5

TimeseriesClasses ==
    {"EyePositionInterface", "PupilSizeInterface", "RewardLineInterface",
     "AudioInterface"}

\* the JSON files a constructor looks for, in the order it checks them
ExpectedFiles(cls) ==
    CASE cls = "EyePositionInterface" ->
            << <<"eye_h_calibrated.json">>, <<"eye_v_calibrated.json">> >>
      [] cls = "PupilSizeInterface" -> << <<"pupil_size_r.json">> >>
      [] cls = "RewardLineInterface" -> << <<"reward_line.json">> >>
      [] cls = "AudioInterface" -> << <<"sound.json">> >>

Abs(x) == IF x < 0 THEN -x ELSE x

\* np.allclose(a, b, atol=0.0005) on arrays of one length: every pair has
\* |a - b| <= atol + rtol * |b| with numpy's default rtol = 1e-5; the left
\* side being a whole number of ticks, the right side may be rounded down
AllClose(a, b) ==
    \A i \in 1..Len(a) :
        Abs(a[i] - b[i]) <= Atol + (Abs(b[i]) \div 100000)

\* the constructor with the assertion on the eye_v file left out, the file
\* then being opened without the check
timeseries_init_NoSecondAssert(cls, dir, e) ==
    LET files == ExpectedFiles(cls)
    IN  IF files[1] \notin dir
        THEN [error |-> "AssertionError", message |-> files[1],
              steps |-> <<>>, original |-> <<>>, set |-> FALSE]
        ELSE IF \E i \in 1..Len(files) : files[i] \notin dir
             THEN [error |-> "FileNotFoundError", message |-> NoPath,
                   steps |-> <<"load">>, original |-> <<>>, set |-> FALSE]
             ELSE [error |-> "none", message |-> NoPath,
                   steps |-> <<"load", "set_original_timestamps">>,
                   original |-> e.h_times, set |-> TRUE]

\* __init__ of the class: the exception it ends with, the file its message
\* names, what it did and the original timestamps it set
timeseries_init(cls, dir, e) ==
    LET files == ExpectedFiles(cls)
        missing == {i \in 1..Len(files) : files[i] \notin dir}
        Raise(x, did) ==
            [error |-> x, message |-> NoPath, steps |-> did,
             original |-> <<>>, set |-> FALSE]
    IN  IF missing # {}
        THEN [error |-> "AssertionError", message |-> files[Min(missing)],
              steps |-> <<>>, original |-> <<>>, set |-> FALSE]
        ELSE IF cls = "EyePositionInterface"
        THEN IF Len(e.h_times) # Len(e.v_times)
             THEN Raise("ValueError", <<"load">>)
             ELSE IF ~AllClose(e.h_times, e.v_times)
                  THEN Raise("ValueError", <<"load">>)
                  ELSE [error |-> "none", message |-> NoPath,
                        steps |-> <<"load", "set_original_timestamps">>,
                        original |-> e.h_times, set |-> TRUE]
        ELSE IF cls = "AudioInterface" /\ ~e.known_sounds
        THEN [error |-> "KeyError", message |-> NoPath,
              steps |-> <<"load", "set_original_timestamps">>,
              original |-> e.h_times, set |-> TRUE]
        ELSE [error |-> "none", message |-> NoPath,
              steps |-> <<"load", "set_original_timestamps">>,
              original |-> e.h_times, set |-> TRUE]

TickValues == {0, 6, 200000, 200006, 200008}

TickArrays == UNION {[1..n -> TickValues] : n \in 0..MaxEyeSamples}

\* h_times: the "times" of the class's first file; v_times: those of the
\* eye_v file; known_sounds: every value of sound.json is in SOUNDS
TimeseriesEnvs(cls) ==
    [h_times : TickArrays,
     v_times : IF cls = "EyePositionInterface" THEN TickArrays ELSE {<<>>},
     known_sounds : IF cls = "AudioInterface" THEN BOOLEAN ELSE {TRUE}]

InitTimeseries ==
    /\ IdleRuns
    /\ IdleConverter
    /\ variant \in TimeseriesClasses
    /\ pc = "call"
    /\ directory \in SUBSET Range(ExpectedFiles(variant))
    /\ suffix = NoString
    /\ result = NoPath
    /\ argv = <<>>
    /\ subject = NoString
    /\ session = NoString
    /\ conversion_type = NoString
    /\ stub_test = FALSE
    /\ env \in TimeseriesEnvs(variant)
    /\ session_paths = NoFun
    /\ session_id = NoString
    /\ runs = <<>>
    /\ nwb_files = {}
    /\ error = "none"

\* the constructor of the class named by variant, on the folder holding the
\* files of directory; result is the file the assertion message names
TimeseriesInit ==
    /\ variant \in TimeseriesClasses
    /\ pc = "call"
    /\ LET r == timeseries_init(variant, directory, env)
       IN  /\ pc' = IF r.error = "none" THEN "returned" ELSE "raised"
           /\ error' = r.error
           /\ result' = r.message
           /\ steps' = r.steps
           /\ IF r.set
              THEN /\ original_timestamps' = (variant :> r.original)
                   /\ timestamps' = (variant :> r.original)
              ELSE UNCHANGED <<original_timestamps, timestamps>>
    /\ UNCHANGED <<variant, directory, suffix, argv, subject, session,
                   conversion_type, stub_test, env, session_paths,
                   session_id, runs, nwb_files, data_interface_objects,
                   sync_dir, sync, num_samples, sorting_extractor,
                   registered, max_excess_samples, todo, invocations,
                   entry_timestamps, entry_sorting, aligned_timestamps,
                   dataframe, runVars>>

NextTimeseries == TimeseriesInit

SpecTimeseries == InitTimeseries /\ [][NextTimeseries]_vars

\* the JSON files of the class that the folder does not hold
MissingFiles ==
    {f \in Range(ExpectedFiles(variant)) : f \notin directory}

\* C12: when an expected JSON file is missing, the constructor of each
\* behavioural timeseries interface ends with an AssertionError whose message
\* names a missing file, having read no data and set no timestamps.
C12_MissingFileAsserted ==
    (variant \in TimeseriesClasses /\ pc # "call" /\ MissingFiles # {}) =>
        /\ pc = "raised"
        /\ error = "AssertionError"
        /\ result \in MissingFiles
        /\ steps = <<>>
    /\ dataframe = NoFun
        /\ original_timestamps = NoFun
        /\ timestamps = NoFun

\* C12 witness: the eye_h file is there, the eye_v file is not, and the
\* constructor has raised naming the eye_v file
C12_Witness ==
    /\ variant = "EyePositionInterface"
    /\ pc = "raised"
    /\ directory = { <<"eye_h_calibrated.json">> }
    /\ result = <<"eye_v_calibrated.json">>
    /\ Len(env.h_times) > 0

\* C18: EyePositionInterface's constructor raises ValueError when the
\* horizontal and vertical timestamp arrays differ in length or when some
\* pair of corresponding timestamps differs by more than 0.5 ms (5 ticks);
\* otherwise the horizontal timestamps are the original timestamps.
C18_EyeTimesWithinHalfMillisecond ==
    (variant = "EyePositionInterface" /\ pc # "call" /\ MissingFiles = {}) =>
        IF \/ Len(env.h_times) # Len(env.v_times)
           \/ \E i \in 1..Len(env.h_times) :
                 Abs(env.h_times[i] - env.v_times[i]) > Atol
        THEN pc = "raised" /\ error = "ValueError"
        ELSE /\ pc = "returned"
             /\ original_timestamps = (variant :> env.h_times)

----------------------------------------------------------------------------
(* The two run_conversion calls of one session: the processed converter
   aligns its interfaces and writes, then the raw converter does.  Both are
   built from the same files, so a stream they share starts from the same
   original timestamps in both. *)

\* the keys session_to_nwb puts into the raw source data
RawKeys == {RecordingVP0, RecordingVP1, RecordingNP, LF}

Restrict(f, S) == [n \in DOMAIN f \cap S |-> f[n]]

\* a processed converter with a sync_dir, before its run_conversion
InitRuns ==
    /\ Init
    /\ sync_dir
    /\ Has(Trials)

\* processed_converter.run_conversion has aligned and writes; the raw
\* converter, built from the raw source data, is the one to run next
WriteProcessed ==
    /\ variant \in Variants
    /\ pc = "done"
    /\ invocations = 1
    /\ written = <<>>
    /\ written' = <<[converter |-> "processed", timestamps |-> timestamps]>>
    /\ LET raw == Construct(variant, Range(data_interface_objects)
                                        \cap RawKeys)
           orig == Restrict(original_timestamps, Range(raw))
       IN  /\ data_interface_objects' = raw
           /\ original_timestamps' = orig
           /\ timestamps' = orig
           /\ num_samples' = Restrict(num_samples, Range(raw))
           /\ sorting_extractor' = Restrict(sorting_extractor, Range(raw))
           /\ registered' = Restrict(registered, Range(raw))
           /\ entry_timestamps' = orig
           /\ entry_sorting' = Restrict(sorting_extractor, Range(raw))
           /\ aligned_timestamps' = orig
           /\ dataframe' = Restrict(dataframe, Range(raw))
    /\ pc' = "idle"
    /\ invocations' = 0
    /\ todo' = <<>>
    /\ steps' = <<>>
    /\ UNCHANGED <<variant, sync_dir, sync, max_excess_samples, fileVars,
                   sessVars>>

\* raw_converter.run_conversion has aligned and writes
WriteRaw ==
    /\ variant \in Variants
    /\ pc = "done"
    /\ invocations = 1
    /\ Len(written) = 1
    /\ written' = Append(written,
                         [converter |-> "raw", timestamps |-> timestamps])
    /\ pc' = "written"
    /\ UNCHANGED <<convOnly, variant, fileVars, sessVars>>

NextRuns ==
    \/ BeginAlign
    \/ AlignRecording
    \/ TrimSorting
    \/ RegisterRecording
    \/ ZeroAll
    \/ WriteProcessed
    \/ WriteRaw

SpecRuns == InitRuns /\ [][NextRuns]_vars

\* C13: a stream that is in the raw converter and in the processed converter
\* of one session is written with the same timestamps by both, so that time
\* zero is the same instant in both NWB files.
C13_SameZeroInBothFiles ==
    Len(written) = 2 =>
        \A n \in DOMAIN written[2].timestamps :
            n \in DOMAIN written[1].timestamps =>
                written[2].timestamps[n] = written[1].timestamps[n]


----------------------------------------------------------------------------
(* The zeroing as a change of frame, checked under Spec *)

\* the time-valued columns of the trials and display tables
TimeValuedColumns ==
    {"start_time", "phase_fixation_time", "phase_stimulus_time",
     "phase_delay_time", "phase_cue_time", "phase_response_time",
     "phase_reveal_time", "phase_iti_time", "reward_time", "response_time",
     "closed_loop_response_time"}

\* the offset the zeroing step about to run will add
ZeroOffset ==
    (-1) * Min({FirstTimestamp(n) : n \in Range(data_interface_objects)})

\* C14: the zeroing step adds one and the same offset, minus the smallest
\* first timestamp, to the timestamps of every interface that is not a
\* sorting and to every time-valued column of the trials and display tables
\* (start_time, phase_*_time, reward_time, response_time,
\* closed_loop_response_time), so that the difference between any two
\* timestamps of any two streams is the same before and after; the columns
\* that hold no time (reward_duration, the positions, the labels) are left
\* as they were.
C14_ZeroingAddsOneOffset ==
    [][(pc = "zero" /\ pc' = "done") =>
          /\ \A n \in NonSortings(data_interface_objects) :
                timestamps'[n] = Shift(timestamps[n], ZeroOffset)
          /\ \A n \in DOMAIN dataframe : \A c \in DOMAIN dataframe[n] :
                dataframe'[n][c] =
                   IF c \in TimeValuedColumns
                   THEN Shift(dataframe[n][c], ZeroOffset)
                   ELSE dataframe[n][c]
          /\ \A n, m \in NonSortings(data_interface_objects) :
                \A i \in DOMAIN timestamps[n], j \in DOMAIN timestamps[m] :
                   timestamps'[n][i] - timestamps'[m][j]
                      = timestamps[n][i] - timestamps[m][j]
          /\ \A n \in DOMAIN dataframe :
                \A c \in DOMAIN dataframe[n] \cap TimeValuedColumns :
                   \A m \in NonSortings(data_interface_objects) :
                      \A i \in DOMAIN dataframe[n][c],
                         j \in DOMAIN timestamps[m] :
                         dataframe'[n][c][i] - timestamps'[m][j]
                            = dataframe[n][c][i] - timestamps[m][j]
      ]_vars

\* C14 witness: a piccato converter holding a recording and both tables has
\* been zeroed by an offset that is not 0, and the reward times moved with
\* the trial starts while the reward durations stayed
C14_Witness ==
    /\ variant = "piccato"
    /\ pc = "done"
    /\ sync_dir
    /\ Has(Trials) /\ Has(Display) /\ Has(RecordingNP)
    /\ timestamps[Trials] # aligned_timestamps[Trials]
    /\ dataframe[Trials]["reward_time"][1]
          = timestamps[Trials][1] + IndexOf(TrialsTimeColumns, "reward_time")
            - 1
    /\ dataframe[Trials]["reward_duration"]
          = read_file(Trials, original_timestamps[Trials])["reward_duration"]
    /\ dataframe[Display]["start_time"] # original_timestamps[Display]


----------------------------------------------------------------------------
(* The order of the alignment steps of the piccato converter, under Spec *)

StepsOf(kind) == {i \in 1..Len(steps) : steps[i][1] = kind}

\* the recordings of the converter whose probe also has a sorting
SortedRecordings ==
    {n \in Range(data_interface_objects) :
        Contains(n, "Recording") /\ Has(SortingName(ProbeName(n)))}

\* _trim_excess_spikes raises on the sorting the call started with
TrimRaises(name) ==
    trim_excess_spikes(num_samples[name],
                       entry_sorting[SortingName(ProbeName(name))],
                       max_excess_samples).raised

\* C15: in the piccato temporally_align_data_interfaces, for every probe
\* that has both a Recording and a Sorting interface the steps come in the
\* order: the recording's timestamps are aligned, the excess spikes are
\* trimmed from the sorting, the recording is registered to the sorting; the
\* zeroing comes only after every probe has gone through these steps, and a
\* trim that raises ends the call with no registration of that probe and no
\* zeroing.
C15_PiccatoStepOrder ==
    variant = "piccato" =>
        /\ \A i \in StepsOf("trim") :
              /\ i > 1
              /\ steps[i - 1] = <<"align", steps[i][2]>>
              /\ steps[i][2] \in SortedRecordings
        /\ \A i \in StepsOf("register") :
              /\ i > 2
              /\ steps[i - 1] = <<"trim", steps[i][2]>>
              /\ steps[i - 2] = <<"align", steps[i][2]>>
        /\ \A i \in StepsOf("align") :
              (steps[i][2] \in SortedRecordings /\ i < Len(steps)) =>
                 steps[i + 1] = <<"trim", steps[i][2]>>
        /\ \A k \in StepsOf("zero") :
              /\ k = Len(steps)
              /\ \A n \in SortedRecordings :
                    \E i \in 1..(k - 1) : steps[i] = <<"register", n>>
              /\ \A n \in Range(RecordingsToVisit) :
                    \E i \in 1..(k - 1) : steps[i] = <<"align", n>>
        /\ \A i \in StepsOf("trim") :
              TrimRaises(steps[i][2]) =>
                 /\ i = Len(steps)
                 /\ pc = "error"
        /\ pc = "error" => StepsOf("zero") = {}

\* C15 witness: a piccato converter with two sorted probes has finished a
\* call: both probes were aligned, trimmed and registered, one of them
\* losing a spike, and the zeroing came last
C15_Witness ==
    /\ variant = "piccato"
    /\ pc = "done"
    /\ SortedRecordings = {RecordingVP0, RecordingNP}
    /\ Len(steps) = 7
    /\ steps[7][1] = "zero"
    /\ \E s \in DOMAIN sorting_extractor :
          sorting_extractor[s] # entry_sorting[s]

\* a trim of the second probe has raised after the first probe was
\* registered
C15_TrimErrorReached ==
    /\ variant = "piccato"
    /\ pc = "error"
    /\ StepsOf("register") # {}


----------------------------------------------------------------------------
(* The time base of the sortings after the alignment, under Spec *)

\* the offset the zeroing of the call that has ended added
OffsetApplied ==
    (-1) * Min({aligned_timestamps[n][1] :
                   n \in NonSortings(data_interface_objects)})

----------------------------------------------------------------------------
(* The session start time, checked under SpecSession *)

\* _update_metadata of the watters script gets as far as the merge of
\* metadata.yaml: the subject has a sex and an age, and the probe metadata
\* file is looked up under session_paths.data_open_source
MergeReached ==
    /\ pc = "metadata"
    /\ subject \in _SUBJECT_TO_SEX("watters")
    /\ "data_open_source" \in session_paths.fields

\* C17: in the watters session_to_nwb, when NWBFile.session_start_time is
\* absent from the metadata after the overrides of metadata.yaml are merged,
\* _update_metadata raises ValueError, and this before run_conversion is
\* called on either converter: the session ends with that error, with no
\* run_conversion call and no NWB file written.
C17_NoStartTimeNoFile ==
    [][(variant = "watters" /\ ~env.start_time) =>
          /\ runs' = <<>>
          /\ nwb_files' = {}
          /\ pc' \notin {"run", "run_raw", "finished"}
          /\ MergeReached =>
                /\ pc' = "failed"
                /\ error' = "ValueError"
      ]_vars

\* C17 witness: a watters session whose subject and paths are in order has
\* ended with the ValueError of the missing start time, nothing written
C17_Witness ==
    /\ variant = "watters"
    /\ ~env.start_time
    /\ env.module = "watters"
    /\ subject \in _SUBJECT_TO_SEX("watters")
    /\ session_id # NoString
    /\ pc = "failed"
    /\ error = "ValueError"
    /\ runs = <<>>
    /\ nwb_files = {}


----------------------------------------------------------------------------
(* The trials tables built from the JSON files                             *)
(*                                                                         *)
(* A JSON value is a record: None, a float (nan marks NaN) or a list of    *)
(* floats.                                                                 *)

MaxTrials == 2

None     == [kind |-> "None", nan |-> FALSE, x |-> 0, xs |-> <<>>]
Float(n) == [kind |-> "float", nan |-> FALSE, x |-> n, xs |-> <<>>]
NaN      == [kind |-> "float", nan |-> TRUE, x |-> 0, xs |-> <<>>]
List(s)  == [kind |-> "list", nan |-> FALSE, x |-> 0, xs |-> s]

\* np.full((dim,), np.nan).tolist()
NaNList(dim) == List([i \in 1..dim |-> NaN])

\* the truth value Python gives to val: None, 0 and the empty list are false
Truthy(val) ==
    \/ val.kind = "float" /\ (val.nan \/ val.x # 0)
    \/ val.kind = "list" /\ Len(val.xs) > 0

\* a + b on floats
Plus(a, b) == IF a.nan \/ b.nan THEN NaN ELSE Float(a.x + b.x)

\* none_to_nan = lambda val, dim: val or (np.nan if dim <= 1 else
\* np.full((dim,), np.nan).tolist())
none_to_nan(val, dim) ==
    IF Truthy(val) THEN val
    ELSE IF dim <= 1 THEN NaN ELSE NaNList(dim)

\* WattersTrialsInterface._read_file: the nullable fields of every row of
\* processed_data
WattersTrialsInterface_read_file(trials) ==
    [i \in 1..Len(trials) |->
        [start_time |-> trials[i].start_time,
         response_error |-> none_to_nan(trials[i].response_error, 1),
         response_location |-> none_to_nan(trials[i].response_location, 2),
         reward_duration |-> none_to_nan(trials[i].reward_duration, 1),
         reward_time |-> Plus(trials[i].start_time,
                              none_to_nan(trials[i].reward_time, 1))]]

\* TrialsInterface._read_file: the closed_loop_response_position column
TrialsInterface_read_file(trials) ==
    [i \in 1..Len(trials) |->
        [closed_loop_response_position |->
            IF trials[i].closed_loop_response_position = None
            THEN List(<<NaN, NaN>>)
            ELSE trials[i].closed_loop_response_position]]

TrialsClasses == {"WattersTrialsInterface", "TrialsInterface"}

\* the values the JSON files hold for one trial
TrialValues(cls) ==
    IF cls = "WattersTrialsInterface"
    THEN [start_time : {Float(5)},
          response_error : {None, Float(0), Float(3)},
          response_location : {None, List(<<Float(1), Float(-1)>>)},
          reward_duration : {None, Float(0), Float(2)},
          reward_time : {None, Float(4)}]
    ELSE [closed_loop_response_position :
             {None, List(<<Float(0), Float(0)>>),
              List(<<Float(1), Float(-1)>>)}]

TrialFiles(cls) ==
    UNION {[1..n -> TrialValues(cls)] : n \in 1..MaxTrials}

InitTable ==
    /\ IdleRuns
    /\ IdleConverter
    /\ IdleFiles
    /\ variant \in TrialsClasses
    /\ pc = "read"
    /\ argv = <<>>
    /\ subject = NoString
    /\ session = NoString
    /\ conversion_type = NoString
    /\ stub_test = FALSE
    /\ env \in TrialFiles(variant)
    /\ session_paths = NoFun
    /\ session_id = NoString
    /\ runs = <<>>
    /\ nwb_files = {}
    /\ error = "none"

\* WattersTrialsInterface._read_file on the files env
WattersReadFile ==
    /\ variant = "WattersTrialsInterface"
    /\ pc = "read"
    /\ dataframe' = (Trials :> WattersTrialsInterface_read_file(env))
    /\ pc' = "table"
    /\ UNCHANGED <<variant, data_interface_objects, sync_dir, sync,
                   original_timestamps, timestamps, num_samples,
                   sorting_extractor, registered, max_excess_samples, todo,
                   invocations, entry_timestamps, entry_sorting,
                   aligned_timestamps, steps, fileVars, sessVars, runVars>>

\* TrialsInterface._read_file on the file env
TrialsReadFile ==
    /\ variant = "TrialsInterface"
    /\ pc = "read"
    /\ dataframe' = (Trials :> TrialsInterface_read_file(env))
    /\ pc' = "table"
    /\ UNCHANGED <<variant, data_interface_objects, sync_dir, sync,
                   original_timestamps, timestamps, num_samples,
                   sorting_extractor, registered, max_excess_samples, todo,
                   invocations, entry_timestamps, entry_sorting,
                   aligned_timestamps, steps, fileVars, sessVars, runVars>>

NextTable == WattersReadFile \/ TrialsReadFile

SpecTable == InitTable /\ [][NextTable]_vars

\* the nullable fields of the class, and the dimension of each
NullableFields ==
    IF variant = "WattersTrialsInterface"
    THEN {"response_error", "response_location", "reward_duration",
          "reward_time"}
    ELSE {"closed_loop_response_position"}

FieldIsVector(f) ==
    f \in {"response_location", "closed_loop_response_position"}

\* what the claim expects in the table for the value v of field f of trial
\* i, the reward time taken from the trial's start
ExpectedEntry(f, i) ==
    LET v == env[i][f] IN
    IF v = None
    THEN (IF FieldIsVector(f) THEN NaNList(2) ELSE NaN)
    ELSE IF f = "reward_time" THEN Plus(env[i].start_time, v)
    ELSE v

\* C19: when the trials table is built, a None value in a nullable field
\* (response_error, response_location, reward_duration, reward_time,
\* closed_loop_response_position) is replaced by NaN, a NaN vector of the
\* field's dimension for the vector fields, and every value that is not
\* None is written to the table as it is.
C19_OnlyNoneBecomesNaN ==
    (variant \in TrialsClasses /\ pc = "table") =>
        \A i \in 1..Len(env) : \A f \in NullableFields :
            dataframe[Trials][i][f] = ExpectedEntry(f, i)


----------------------------------------------------------------------------
(* ramadan read_trials_data                                                *)
(*                                                                         *)
(* save_all_data is a sequence of rows, one record per row with the value  *)
(* of every field; three of the fields of fields_to_extract are modelled,  *)
(* the loop treating all of them alike.                                    *)

MaxRows == 3

fields_to_extract == <<"h1", "geo_present", "trial_indices_all">>

\* np.unique: the distinct values in ascending order
unique(values) ==
    LET S == Range(values)
    IN  CHOOSE u \in [1..Cardinality(S) -> S] :
           \A i, j \in 1..Cardinality(S) : i < j => u[i] < u[j]

\* field_data[trial_mask]
Masked(rows, field, trial_id) ==
    LET keep == SelectSeq(rows,
                          LAMBDA r : r["trial_indices_all"] = trial_id)
    IN  [i \in 1..Len(keep) |-> keep[i][field]]

\* read_trials_data with the check of the number of unique values left out
read_trials_data_NoCheck(rows) ==
    LET unique_trials ==
           unique([i \in 1..Len(rows) |-> rows[i]["trial_indices_all"]])
        filled ==
           [f \in Range(fields_to_extract) |->
               [k \in 1..Len(unique_trials) |->
                   unique(Masked(rows, f, unique_trials[k]))[1]]]
    IN  [raised |-> FALSE,
         trials |-> [f \in DOMAIN filled \cup {"start_time"} |->
                        IF f = "start_time" THEN filled["geo_present"]
                        ELSE filled[f]]]

\* read_trials_data: [raised, trials], raised when the ValueError ends it
read_trials_data(rows) ==
    LET unique_trials ==
           unique([i \in 1..Len(rows) |-> rows[i]["trial_indices_all"]])
        multiple ==
           \E k \in 1..Len(unique_trials) :
              \E f \in Range(fields_to_extract) :
                 Len(unique(Masked(rows, f, unique_trials[k]))) > 1
        filled ==
           [f \in Range(fields_to_extract) |->
               [k \in 1..Len(unique_trials) |->
                   unique(Masked(rows, f, unique_trials[k]))[1]]]
    IN  IF multiple THEN [raised |-> TRUE, trials |-> NoFun]
        ELSE [raised |-> FALSE,
              trials |-> [f \in DOMAIN filled \cup {"start_time"} |->
                             IF f = "start_time" THEN filled["geo_present"]
                             ELSE filled[f]]]

TrialIds    == {1, 2, 3}
FieldValues == {0, 7}

SaveAllData ==
    UNION {[1..n -> [h1 : FieldValues, geo_present : FieldValues,
                     trial_indices_all : TrialIds]] : n \in 1..MaxRows}

InitTrialsData ==
    /\ IdleRuns
    /\ IdleConverter
    /\ IdleFiles
    /\ variant = "ramadan"
    /\ pc = "read_trials_data"
    /\ argv = <<>>
    /\ subject = NoString
    /\ session = NoString
    /\ conversion_type = NoString
    /\ stub_test = FALSE
    /\ env \in SaveAllData
    /\ session_paths = NoFun
    /\ session_id = NoString
    /\ runs = <<>>
    /\ nwb_files = {}
    /\ error = "none"

\* one call of read_trials_data on the file holding env
ReadTrialsData ==
    /\ variant = "ramadan"
    /\ pc = "read_trials_data"
    /\ LET r == read_trials_data(env)
       IN  /\ pc' = IF r.raised THEN "raised" ELSE "returned"
           /\ error' = IF r.raised THEN "ValueError" ELSE error
           /\ dataframe' = IF r.raised THEN dataframe
                           ELSE (Trials :> r.trials)
    /\ UNCHANGED <<variant, data_interface_objects, sync_dir, sync,
                   original_timestamps, timestamps, num_samples,
                   sorting_extractor, registered, max_excess_samples, todo,
                   invocations, entry_timestamps, entry_sorting,
                   aligned_timestamps, steps, fileVars, runVars>>
    /\ UNCHANGED <<argv, subject, session, conversion_type, stub_test, env,
                   session_paths, session_id, runs, nwb_files>>

NextTrialsData == ReadTrialsData

SpecTrialsData == InitTrialsData /\ [][NextTrialsData]_vars

\* the trial ids of the file, and the values a field takes in a trial
IdsOfFile == {env[i]["trial_indices_all"] : i \in 1..Len(env)}

ValuesIn(field, trial_id) ==
    {env[i][field] :
        i \in {j \in 1..Len(env) : env[j]["trial_indices_all"] = trial_id}}

SomeFieldVaries ==
    \E t \in IdsOfFile : \E f \in Range(fields_to_extract) :
        Cardinality(ValuesIn(f, t)) > 1

\* C20: read_trials_data returns, for every extracted field, a list with
\* exactly one entry per distinct trial id, in ascending order of the trial
\* ids, the entry being the one value the field takes on all rows of that
\* trial; it raises ValueError when a field takes more than one distinct
\* value within a trial; and the start_time column equals the geo_present
\* column row for row.
C20_OneEntryPerTrial ==
    (variant = "ramadan" /\ pc # "read_trials_data") =>
        /\ SomeFieldVaries => (pc = "raised" /\ error = "ValueError")
        /\ ~SomeFieldVaries =>
              /\ pc = "returned"
              /\ LET trials == dataframe[Trials]
                     ids == trials["trial_indices_all"]
                 IN  /\ Range(ids) = IdsOfFile
                     /\ \A i, j \in 1..Len(ids) : i < j => ids[i] < ids[j]
                     /\ \A f \in Range(fields_to_extract) :
                           /\ Len(trials[f]) = Cardinality(IdsOfFile)
                           /\ \A k \in 1..Len(ids) :
                                 ValuesIn(f, ids[k]) = {trials[f][k]}
                     /\ trials["start_time"] = trials["geo_present"]

\* C20 witness: a file of three rows, the trial ids not in order and one of
\* them on two rows, has been read into two entries per field
C20_Witness ==
    /\ variant = "ramadan"
    /\ pc = "returned"
    /\ Len(env) = 3
    /\ env[1]["trial_indices_all"] = 2
    /\ env[2]["trial_indices_all"] = 1
    /\ env[3]["trial_indices_all"] = 2
    /\ dataframe[Trials]["trial_indices_all"] = <<1, 2>>
    /\ dataframe[Trials]["h1"] = <<7, 0>>
    /\ dataframe[Trials]["start_time"] = <<0, 7>>


----------------------------------------------------------------------------
(* ramadan reorganize_neural_data                                          *)
(*                                                                         *)
(* The input is a sequence of rows, row i holding nrns_all[i],             *)
(* trial_indices_all[i] and smooth_session[i], a sequence of one float per *)
(* timepoint. The array returned is indexed [timepoint][trial][neuron],    *)
(* from 1.                                                                 *)

Timepoints == 2

\* the index of id in np.unique(ids), counted from 1
IdToIndex(ids, id) == IndexOf(unique(ids), id)

\* the loop over the rows from row i on: every row is written over the
\* slice of its trial and neuron
RECURSIVE FillRows(_, _, _)
FillRows(data, rows, i) ==
    IF i > Len(rows) THEN data
    ELSE LET nrns_all == [k \in 1..Len(rows) |-> rows[k].nrn]
             trial_indices_all == [k \in 1..Len(rows) |-> rows[k].trial]
             trial_idx == IdToIndex(trial_indices_all, rows[i].trial)
             neuron_idx == IdToIndex(nrns_all, rows[i].nrn)
         IN  FillRows([t \in DOMAIN data |->
                          [data[t] EXCEPT ![trial_idx][neuron_idx] =
                              rows[i].smooth_session[t]]],
                      rows, i + 1)

\* reorganize_neural_data(neural_data, nrns_all, trial_indices_all)
reorganize_neural_data(rows) ==
    LET maximum_number_of_timepoints == Len(rows[1].smooth_session)
        number_of_trials ==
           Len(unique([k \in 1..Len(rows) |-> rows[k].trial]))
        number_of_neurons ==
           Len(unique([k \in 1..Len(rows) |-> rows[k].nrn]))
        full == [t \in 1..maximum_number_of_timepoints |->
                    [tr \in 1..number_of_trials |->
                        [n \in 1..number_of_neurons |-> NaN]]]
    IN  FillRows(full, rows, 1)

NeuronIds == {4, 9}
SmoothRows ==
    {[t \in 1..Timepoints |-> Float(t)],
     [t \in 1..Timepoints |-> Float(7 + t)]}

NeuralData ==
    UNION {[1..n -> [nrn : NeuronIds, trial : TrialIds,
                     smooth_session : SmoothRows]] : n \in 1..MaxRows}

InitReorganize ==
    /\ IdleRuns
    /\ IdleConverter
    /\ IdleFiles
    /\ variant = "ramadan"
    /\ pc = "reorganize"
    /\ argv = <<>>
    /\ subject = NoString
    /\ session = NoString
    /\ conversion_type = NoString
    /\ stub_test = FALSE
    /\ env \in NeuralData
    /\ session_paths = NoFun
    /\ session_id = NoString
    /\ runs = <<>>
    /\ nwb_files = {}
    /\ error = "none"

\* one call of reorganize_neural_data on the rows env; result is the array
ReorganizeNeuralData ==
    /\ variant = "ramadan"
    /\ pc = "reorganize"
    /\ result' = reorganize_neural_data(env)
    /\ pc' = "reorganized"
    /\ UNCHANGED <<variant, convOnly, directory, suffix, sessVars, runVars>>

NextReorganize == ReorganizeNeuralData

SpecReorganize == InitReorganize /\ [][NextReorganize]_vars

\* the distinct ids of the input, and the rank of an id among them
TrialsOfInput  == {env[i].trial : i \in 1..Len(env)}
NeuronsOfInput == {env[i].nrn : i \in 1..Len(env)}
Rank(S, id)    == Cardinality({x \in S : x <= id})

\* C21: reorganize_neural_data returns an array of shape (timepoints,
\* number of distinct trial ids, number of distinct neuron ids) in which,
\* for every input row i, the slice of the row's trial and neuron, each at
\* the rank of its id among the sorted distinct ids, equals
\* smooth_session[i], and every (trial, neuron) cell that has no input row
\* is NaN.
C21_EveryRowInItsSlice ==
    (variant = "ramadan" /\ pc = "reorganized") =>
        /\ Len(result) = Timepoints
        /\ \A t \in 1..Len(result) :
              /\ Len(result[t]) = Cardinality(TrialsOfInput)
              /\ \A tr \in 1..Len(result[t]) :
                    Len(result[t][tr]) = Cardinality(NeuronsOfInput)
        /\ \A i \in 1..Len(env) : \A t \in 1..Timepoints :
              result[t][Rank(TrialsOfInput, env[i].trial)]
                       [Rank(NeuronsOfInput, env[i].nrn)]
                 = env[i].smooth_session[t]
        /\ \A tr \in TrialsOfInput, n \in NeuronsOfInput :
              (\A i \in 1..Len(env) : env[i].trial # tr \/ env[i].nrn # n)
                 => \A t \in 1..Timepoints :
                       result[t][Rank(TrialsOfInput, tr)]
                                [Rank(NeuronsOfInput, n)] = NaN


----------------------------------------------------------------------------
(* A second call of temporally_align_data_interfaces, under Spec *)

\* C22: temporally_align_data_interfaces is idempotent: a second call on
\* the same converter leaves the timestamps of every interface exactly as
\* they were after the first call.
C22_SecondCallChangesNothing ==
    (variant \in {"piccato", "watters"} /\ pc = "done" /\ invocations = 2) =>
        \A n \in DOMAIN timestamps : timestamps[n] = entry_timestamps[n]


----------------------------------------------------------------------------
(* What _trim_excess_spikes leaves alone, checked under SpecTrim *)

\* no segment has a spike at or past the end of its recording
NoSpikePastEnd ==
    \A k \in 1..Len(sorting_extractor[SortingVP0]) :
        LET spike == sorting_extractor[SortingVP0][k]
        IN  spike.sample_index
               < num_samples[RecordingVP0][spike.segment_index + 1]

\* C23: _trim_excess_spikes leaves the extractor of the sorting interface
\* as it was in two cases: when no segment has a spike at or past the end of
\* its recording, and when it raises ValueError, also when an earlier
\* segment had an excess within the slack; the recording interface is never
\* changed.
C23_TrimLeavesAlone ==
    [][(variant = "trim" /\ pc = "call") =>
          /\ num_samples' = num_samples
          /\ timestamps' = timestamps
          /\ original_timestamps' = original_timestamps
          /\ (NoSpikePastEnd \/ pc' = "raised") =>
                sorting_extractor' = sorting_extractor
      ]_vars

\* C23 witness: the call has raised on the second segment after the first
\* segment had a spike past its end within the slack, and the sorting still
\* holds that spike
C23_Witness ==
    /\ variant = "trim"
    /\ pc = "raised"
    /\ Len(num_samples[RecordingVP0]) = 2
    /\ \E k \in 1..Len(sorting_extractor[SortingVP0]) :
          /\ sorting_extractor[SortingVP0][k].segment_index = 0
          /\ sorting_extractor[SortingVP0][k].sample_index >= NumSamples
    /\ sorting_extractor = entry_sorting

====
